---- MODULE Spec2Model ----
(***************************************************************************)
(* Model of the crawl engine of banger_crawler.py: the posts table, the    *)
(* remote read API it pulls from, save_post, crawl_to_root,                *)
(* crawl_quotes_bfs and the trace / crawl / crawl-all / update commands.   *)
(***************************************************************************)
EXTENDS Integers, Sequences, FiniteSets, TLC

(* ------------------------------ bounds --------------------------------- *)
\* number of changes of the remote data (a post appears or disappears)
MaxChanges == 1
\* posts per getQuotes page (the code asks for limit=100)
PageSize == 1
\* turns of the tracer's loop that are followed
MaxHops == 6
\* greatest quoteCount of the records handed to save_post directly
MaxCount == 1
\* greatest max_depth handed to crawl_quotes_bfs
MaxDepthArg == 1

(* --------------------------- the remote forest ------------------------- *)
\* R is quoted by A and B, A is quoted by G.
Posts == {"R", "A", "B", "G"}

\* the order in which getQuotes lists the posts quoting a post
QuotersOf(p) ==
    CASE p = "R" -> <<"A", "B">>
      [] p = "A" -> <<"G">>
      [] OTHER   -> <<>>

\* posts whose record the store may refuse to insert
Malformable == {"B"}

Did(p)    == <<"did", p>>
Handle(p) == <<"handle", p>>
None      == <<"none", "none">>
\* the falsy post: what fetch_post returns for a thread without a post
NoPost    == [uri |-> None, quoteCount |-> 0, likeCount |-> 0, quotes_uri |-> None,
              text |-> "none", malformed |-> FALSE]

\* identifiers a user passes on the command line
Inputs == {Did("R"), Handle("R"), Did("A"), Handle("A"), Did("G")}

NoCursor == 0
NoDepth  == -1
DepthArgs == {NoDepth}

VARIABLES
    live,           \* remote: the posts that exist right now
    bad,            \* remote: posts whose INSERT raises
    cyc,            \* remote: whether the record of CycleTop quotes CycleBack
    nchg,           \* remote changes so far
    store,          \* the posts table: uri -> row
    cmd, pc,        \* running command and its position
    arg, max_depth, \* its arguments
    uri, chain,     \* crawl_to_root locals; uri is also the row crawl-all selected
    queue, cur, cursor, pending, total_crawled,   \* crawl_quotes_bfs locals
    scan, updated,  \* update locals
    saved,          \* the last save_post call: its argument and the row it found
    run,            \* bookkeeping of the running command
    hist,           \* whether prev keeps the arguments and results, or the exit only
    prev            \* summary of the command that ran before
vars == <<live, bad, cyc, nchg, store, cmd, pc, arg, max_depth, uri, chain, queue, cur,
          cursor, pending, total_crawled, scan, updated, saved, run, hist, prev>>

(* ------------------------------ the Gateway ---------------------------- *)
PostOfUri(u) == u[2]

ParentOf(p) ==
    IF \E q \in Posts : \E i \in 1..Len(QuotersOf(q)) : QuotersOf(q)[i] = p
    THEN Did(CHOOSE q \in Posts : \E i \in 1..Len(QuotersOf(q)) : QuotersOf(q)[i] = p)
    ELSE None

RECURSIVE LiveOnly(_, _)
LiveOnly(s, lv) ==
    IF s = <<>> THEN <<>>
    ELSE IF Head(s) \in lv THEN <<Head(s)>> \o LiveOnly(Tail(s), lv)
         ELSE LiveOnly(Tail(s), lv)

QuoteCount(p, lv) == Len(LiveOnly(QuotersOf(p), lv))

\* a record may embed the uri of any post, one that quotes it included: with cyc the
\* record of R quotes A, and the parent edges R -> A -> R form a cycle (the counts and
\* the quotes listings stay those of the forest)
CycleTop  == "R"
CycleBack == "A"

\* the uri embedded in the record of p
extract_quoted_uri(p) ==
    IF cyc /\ p = CycleTop THEN Did(CycleBack) ELSE ParentOf(p)

\* likeCount, repostCount and replyCount are read and written together and decide
\* nothing: likeCount stands for the three. On this remote a post is liked by the
\* authors of the posts that quote it.
LikeCount(p, lv) == QuoteCount(p, lv)

\* the post view the remote returns for p; text stands for cid, author, text,
\* created_at and the media fields of the record
PostView(p, lv, bd) ==
    [uri |-> Did(p), quoteCount |-> QuoteCount(p, lv), likeCount |-> LikeCount(p, lv),
     quotes_uri |-> extract_quoted_uri(p), text |-> p, malformed |-> p \in bd]

resolve_uri_to_did(u) == IF u[1] = "did" THEN u ELSE Did(u[2])

\* fetch_post when the request succeeds: the post, or None for a post that is gone
fetch_post(u, lv, bd) ==
    IF PostOfUri(u) \in lv THEN PostView(PostOfUri(u), lv, bd) ELSE NoPost

\* fetch_quotes when the request succeeds: one page and the next cursor
fetch_quotes(u, c, lv, bd) ==
    LET p     == PostOfUri(resolve_uri_to_did(u))
        slots == QuotersOf(p)
        last  == IF c + PageSize < Len(slots) THEN c + PageSize ELSE Len(slots)
        win   == SubSeq(slots, c + 1, last)
        shown == LiveOnly(win, lv)
    IN  [posts  |-> [i \in 1..Len(shown) |-> PostView(shown[i], lv, bd)],
         cursor |-> IF last < Len(slots) THEN last ELSE NoCursor]

(* ------------------------------- the table ---------------------------- *)
\* init_db as CREATE OR REPLACE TABLE: every command starts from an empty table
init_db_replaces(st) == <<>>

\* init_db at the start of every command: CREATE TABLE IF NOT EXISTS keeps the table
\* there is; uri is its PRIMARY KEY, the table is a function of the uri
init_db(st) == st

(* ------------------------------- save_post ----------------------------- *)
Stored(st, u) == u \in DOMAIN st

\* the row the INSERT writes
NewRow(post) ==
    [quote_count |-> post.quoteCount, like_count |-> post.likeCount,
     quotes_crawled |-> FALSE, quotes_uri |-> post.quotes_uri, text |-> post.text]

\* save_post without the reset of quotes_crawled
save_post_keeps_flag(st, post, force_update) ==
    IF post = NoPost THEN st
    ELSE IF Stored(st, post.uri)
    THEN IF force_update \/ post.quoteCount > st[post.uri].quote_count
         THEN [st EXCEPT ![post.uri] = [@ EXCEPT !.quote_count = post.quoteCount,
                                                 !.like_count = post.likeCount]]
         ELSE st
    ELSE IF post.malformed THEN st
    ELSE st @@ (post.uri :> NewRow(post))

\* save_post that resets the flag on growth and leaves the old counters
save_post_keeps_count(st, post, force_update) ==
    IF post = NoPost THEN st
    ELSE IF Stored(st, post.uri)
    THEN IF post.quoteCount > st[post.uri].quote_count
         THEN [st EXCEPT ![post.uri].quotes_crawled = FALSE]
         ELSE st
    ELSE IF post.malformed THEN st
    ELSE st @@ (post.uri :> NewRow(post))

\* save_post that writes the counters of every fetch, forced or not
save_post_always_updates(st, post, force_update) ==
    IF post = NoPost THEN st
    ELSE IF Stored(st, post.uri)
    THEN [st EXCEPT ![post.uri] =
             [@ EXCEPT !.like_count = post.likeCount,
                       !.quote_count = post.quoteCount,
                       !.quotes_crawled =
                           IF post.quoteCount > st[post.uri].quote_count THEN FALSE
                           ELSE st[post.uri].quotes_crawled]]
    ELSE IF post.malformed THEN st
    ELSE st @@ (post.uri :> NewRow(post))

\* save_post whose forced update opens the row again
save_post_force_reopens(st, post, force_update) ==
    IF post = NoPost THEN st
    ELSE IF Stored(st, post.uri)
    THEN IF force_update \/ post.quoteCount > st[post.uri].quote_count
         THEN [st EXCEPT ![post.uri] =
                  [@ EXCEPT !.like_count = post.likeCount,
                            !.quote_count = post.quoteCount,
                            !.quotes_crawled = FALSE]]
         ELSE st
    ELSE IF post.malformed THEN st
    ELSE st @@ (post.uri :> NewRow(post))

\* save_post whose UPDATE writes the whole record
save_post_rewrites_record(st, post, force_update) ==
    IF post = NoPost THEN st
    ELSE IF Stored(st, post.uri)
    THEN IF force_update \/ post.quoteCount > st[post.uri].quote_count
         THEN [st EXCEPT ![post.uri] =
                  [NewRow(post) EXCEPT !.quotes_crawled =
                       IF post.quoteCount > st[post.uri].quote_count THEN FALSE
                       ELSE st[post.uri].quotes_crawled]]
         ELSE st
    ELSE IF post.malformed THEN st
    ELSE st @@ (post.uri :> NewRow(post))

save_post(st, post, force_update) ==
    IF post = NoPost THEN st
    ELSE IF Stored(st, post.uri)
    THEN LET old_quote_count == st[post.uri].quote_count
             was_crawled     == st[post.uri].quotes_crawled
             needs_recrawl   == post.quoteCount > old_quote_count
         IN  IF force_update \/ needs_recrawl
             THEN [st EXCEPT ![post.uri] =
                      [@ EXCEPT !.like_count = post.likeCount,
                                !.quote_count = post.quoteCount,
                                !.quotes_crawled = IF needs_recrawl THEN FALSE
                                                   ELSE was_crawled]]
             ELSE st
    ELSE IF post.malformed THEN st
    ELSE st @@ (post.uri :> NewRow(post))

\* what save_post returns: TRUE for a newly inserted row
save_post_new(st, post) ==
    post # NoPost /\ ~Stored(st, post.uri) /\ ~post.malformed

\* record of a save_post call, kept for the properties
SavedRec(st, post, force_update) ==
    [uri    |-> post.uri,
     qc     |-> post.quoteCount,
     like   |-> post.likeCount,
     edge   |-> post.quotes_uri,
     text   |-> post.text,
     force  |-> force_update,
     had    |-> Stored(st, post.uri),
     old_qc |-> IF Stored(st, post.uri) THEN st[post.uri].quote_count ELSE 0,
     old_like |-> IF Stored(st, post.uri) THEN st[post.uri].like_count ELSE 0,
     old_crawled |-> IF Stored(st, post.uri) THEN st[post.uri].quotes_crawled ELSE FALSE]

NoSaved == [uri |-> None, qc |-> 0, like |-> 0, edge |-> None, text |-> "none",
            force |-> FALSE, had |-> FALSE, old_qc |-> 0, old_like |-> 0,
            old_crawled |-> FALSE]

(* ------------------------------ bookkeeping ---------------------------- *)
NoItem == [uri |-> None, depth |-> 0]
\* of the running command: rows created and posts listed for the item being expanded;
\* with the history also the posts fetched, ingested, listed and marked so far, and
\* the flags an undisturbed crawl from the start state ends with
NoRun  == [created |-> 0, seen |-> {}, fetched |-> {}, ingested |-> {}, returned |-> {},
           marked |-> {}, goal |-> <<>>]
NoPrev == [cmd |-> "none", arg |-> None, max_depth |-> NoDepth, outcome |-> "none",
           count |-> 0, chain |-> <<>>, ingested |-> {}, goal |-> <<>>]

\* without the history a new command forgets how the one before it ended
KeepPrev == IF hist THEN prev ELSE NoPrev

\* fetched, ingested and returned are kept only together with the history
Track(r) == IF hist THEN r
            ELSE [r EXCEPT !.fetched = {}, !.ingested = {}, !.returned = {},
                           !.marked = {}, !.goal = <<>>]

\* the rows a save_post call adds: 1 or 0
Created(st, post) == IF save_post_new(st, post) THEN 1 ELSE 0

InitState ==
    /\ live \in SUBSET Posts
    /\ bad \in SUBSET Malformable
    /\ nchg = 0
    /\ store = <<>>
    /\ cmd = "idle" /\ pc = "idle"
    /\ arg = None /\ max_depth = NoDepth
    /\ uri = None /\ chain = <<>>
    /\ queue = <<>> /\ cur = NoItem /\ cursor = NoCursor /\ pending = <<>>
    /\ total_crawled = 0
    /\ scan = <<>> /\ updated = 0
    /\ saved = NoSaved
    /\ run = NoRun
    /\ prev = NoPrev

Init == InitState /\ hist = FALSE /\ cyc = FALSE

\* the same start, the previous command's arguments and results being kept
InitTwice == InitState /\ hist = TRUE /\ cyc = FALSE

\* the same start with a remote whose parent edges form a cycle
InitCycle == InitState /\ hist = FALSE /\ cyc = TRUE

envVars   == <<live, bad, cyc, nchg>>
traceVars == <<uri, chain>>
bfsVars   == <<queue, cur, cursor, pending, total_crawled>>
updVars   == <<scan, updated>>

\* the process ends: its in-memory state is gone, the table stays
EndRun(outcome) ==
    /\ prev' = IF hist
                THEN [cmd |-> cmd, arg |-> arg, max_depth |-> max_depth,
                      outcome |-> outcome,
                      count |-> total_crawled, chain |-> chain,
                      ingested |-> run.ingested, goal |-> run.goal]
                ELSE [NoPrev EXCEPT !.cmd = cmd, !.outcome = outcome]
    /\ cmd' = "idle" /\ pc' = "idle"
    /\ arg' = None /\ max_depth' = NoDepth
    /\ uri' = None /\ chain' = <<>>
    /\ queue' = <<>> /\ cur' = NoItem /\ cursor' = NoCursor /\ pending' = <<>>
    /\ total_crawled' = 0
    /\ scan' = <<>> /\ updated' = 0
    /\ run' = NoRun
    /\ UNCHANGED <<envVars, store, hist>> /\ saved' = NoSaved

(* ------------------------------ environment ---------------------------- *)
\* a post appears on, or disappears from, the remote
RemoteChange ==
    /\ nchg < MaxChanges
    /\ \E p \in Posts : live' = IF p \in live THEN live \ {p} ELSE live \cup {p}
    /\ nchg' = nchg + 1
    /\ UNCHANGED <<bad, cyc, store, cmd, pc, arg, max_depth, traceVars, bfsVars, updVars,
                   run, hist, prev>>
    /\ saved' = NoSaved

\* the process is killed
Interrupt ==
    /\ pc \notin {"idle", "done"}
    /\ EndRun("killed")

\* a command that ran to its end exits
Exit ==
    /\ pc = "done"
    /\ EndRun("done")

(* ------------------------------ crawl_to_root -------------------------- *)
StartTrace ==
    /\ cmd = "idle"
    /\ \E u \in Inputs : arg' = u /\ uri' = u
    /\ cmd' = "trace" /\ pc' = "trace_loop"
    /\ chain' = <<>>
    /\ run' = NoRun
    /\ store' = init_db(store)
    /\ UNCHANGED <<envVars, max_depth, bfsVars, updVars, hist>> /\ saved' = NoSaved
    /\ prev' = KeepPrev

\* one iteration of the while loop, the fetch succeeding when one is made
TraceStep ==
    /\ pc = "trace_loop"
    /\ Len(chain) < MaxHops
    /\ IF Stored(store, uri)
       THEN /\ chain' = Append(chain, uri)
            /\ uri' = store[uri].quotes_uri
            /\ pc' = IF uri' = None THEN "done" ELSE "trace_loop"
            /\ UNCHANGED <<store, run>> /\ saved' = NoSaved
       ELSE LET post == fetch_post(uri, live, bad) IN
            IF post # NoPost
            THEN /\ store' = save_post(store, post, FALSE)
                 /\ saved' = SavedRec(store, post, FALSE)
                 /\ chain' = Append(chain, uri)
                 /\ uri' = post.quotes_uri
                 /\ pc' = IF uri' = None THEN "done" ELSE "trace_loop"
                 /\ run' = Track([run EXCEPT !.fetched = @ \cup {post.uri},
                                       !.ingested = @ \cup {post.uri}])
            ELSE /\ pc' = "done"
                 /\ run' = Track([run EXCEPT !.fetched = @ \cup {resolve_uri_to_did(uri)}])
                 /\ UNCHANGED <<store, uri, chain>> /\ saved' = NoSaved
    /\ UNCHANGED <<envVars, cmd, arg, max_depth, bfsVars, updVars, hist, prev>>

\* api_get raises (raise_for_status): nothing catches it, the command dies
TraceFetchRaises ==
    /\ pc = "trace_loop"
    /\ ~Stored(store, uri)
    /\ EndRun(IF PostOfUri(uri) \in live THEN "transient" ELSE "notfound")

(* ---------------------------- crawl_quotes_bfs ------------------------- *)
\* the call crawl_quotes_bfs(con, u, d): the queue is seeded with (u, 0)
CallBfs(u) ==
    /\ queue' = <<[uri |-> u, depth |-> 0]>>
    /\ total_crawled' = 0
    /\ cur' = NoItem /\ cursor' = NoCursor /\ pending' = <<>>
    /\ pc' = "bfs_loop"

\* the depth test left out
TooDeepNever(depth, md) == FALSE

\* "if max_depth is not None and depth > max_depth: continue"
TooDeep(depth, md) == md # NoDepth /\ depth > md

\* where the loop goes after looking the dequeued post up: result is (quotes_crawled,
\* quote_count), known says whether there is a result at all
AfterLookup(known, crawled, quote_count) ==
    IF known /\ ~crawled
    THEN IF quote_count > 0 THEN "page" ELSE "mark"
    ELSE "bfs_loop"

\* the posts the "while True" loop ingests for u when no request fails: page after
\* page until a page comes without cursor or without posts
RECURSIVE AllPages(_, _, _, _)
AllPages(u, c, lv, bd) ==
    LET data == fetch_quotes(u, c, lv, bd) IN
    IF data.cursor = NoCursor \/ data.posts = <<>> THEN data.posts
    ELSE data.posts \o AllPages(u, data.cursor, lv, bd)

RECURSIVE SaveAll(_, _)
SaveAll(st, posts) ==
    IF posts = <<>> THEN st
    ELSE SaveAll(save_post(st, Head(posts), FALSE), Tail(posts))

RECURSIVE Enqueued(_, _)
Enqueued(posts, depth) ==
    IF posts = <<>> THEN <<>>
    ELSE (IF Head(posts).quoteCount > 0
          THEN <<[uri |-> Head(posts).uri, depth |-> depth]>> ELSE <<>>)
         \o Enqueued(Tail(posts), depth)

\* the UPDATE left out
SetCrawledNever(st, u) == st

SetCrawled(st, u) ==
    IF Stored(st, u) THEN [st EXCEPT ![u].quotes_crawled = TRUE] ELSE st

\* crawl_quotes_bfs as a function: the table it leaves when it runs from table st and
\* queue q to its end, no request failing and the remote data staying as it is
RECURSIVE crawl_quotes_bfs(_, _, _, _, _)
crawl_quotes_bfs(st, q, md, lv, bd) ==
    IF q = <<>> THEN st
    ELSE LET item  == Head(q)
             known == Stored(st, item.uri)
             post  == fetch_post(item.uri, lv, bd)
             st1   == IF known THEN st ELSE save_post(st, post, FALSE)
             next  == IF known
                      THEN AfterLookup(TRUE, st[item.uri].quotes_crawled,
                                       st[item.uri].quote_count)
                      ELSE AfterLookup(post # NoPost, FALSE, post.quoteCount)
             posts == IF next = "page" THEN AllPages(item.uri, NoCursor, lv, bd)
                      ELSE <<>>
         IN  IF TooDeep(item.depth, md)
             THEN crawl_quotes_bfs(st, Tail(q), md, lv, bd)
             ELSE IF next = "bfs_loop"
             THEN crawl_quotes_bfs(st1, Tail(q), md, lv, bd)
             ELSE crawl_quotes_bfs(SetCrawled(SaveAll(st1, posts), item.uri),
                                   Tail(q) \o Enqueued(posts, item.depth + 1),
                                   md, lv, bd)

\* the rows of a table with their quotes_crawled flags
FlagsOf(st) == [u \in DOMAIN st |-> st[u].quotes_crawled]

\* a call of crawl_quotes_bfs from an idle process, max_depth taken from depths
CrawlFrom(depths) ==
    /\ cmd = "idle"
    /\ \E u \in Inputs, d \in depths :
          /\ arg' = u /\ CallBfs(u)
          /\ max_depth' = d
          /\ run' = Track([NoRun EXCEPT !.goal =
                 FlagsOf(crawl_quotes_bfs(store, <<[uri |-> u, depth |-> 0]>>, d,
                                          live, bad))])
    /\ cmd' = "crawl"
    /\ store' = init_db(store)
    /\ UNCHANGED <<envVars, traceVars, updVars, hist>> /\ saved' = NoSaved
    /\ prev' = KeepPrev

\* the crawl command: crawl_quotes_bfs(con, uri), max_depth left at None
StartCrawl == CrawlFrom(DepthArgs)

\* crawl_quotes_bfs(con, uri, max_depth) called with a depth bound
StartCrawlDepth == CrawlFrom(0..MaxDepthArg)

\* popleft, the depth test, the lookup and, for a post without a row, fetch_post and
\* save_post, the fetch succeeding
Dequeue ==
    /\ pc = "bfs_loop" /\ queue # <<>>
    /\ LET item == Head(queue) IN
       /\ queue' = Tail(queue)
       /\ cur' = item
       /\ cursor' = NoCursor
       /\ IF TooDeep(item.depth, max_depth)
          THEN /\ pc' = "bfs_loop"
               /\ UNCHANGED <<store, run>> /\ saved' = NoSaved
          ELSE IF Stored(store, item.uri)
          THEN /\ pc' = AfterLookup(TRUE, store[item.uri].quotes_crawled,
                                    store[item.uri].quote_count)
               /\ run' = Track([run EXCEPT !.seen = {}])
               /\ UNCHANGED <<store>> /\ saved' = NoSaved
          ELSE LET post == fetch_post(item.uri, live, bad) IN
               /\ store' = save_post(store, post, FALSE)
               /\ saved' = IF post # NoPost THEN SavedRec(store, post, FALSE) ELSE NoSaved
               /\ pc' = AfterLookup(post # NoPost, FALSE, post.quoteCount)
               /\ run' = Track([run EXCEPT !.seen = {},
                             !.created = @ + Created(store, post),
                             !.fetched = @ \cup {resolve_uri_to_did(item.uri)},
                             !.ingested = @ \cup (IF post # NoPost THEN {post.uri} ELSE {})])
    /\ UNCHANGED <<envVars, cmd, arg, max_depth, traceVars, pending, total_crawled,
                   updVars, hist, prev>>

\* fetch_post raises inside crawl_quotes_bfs: no caller catches it
DequeueFetchRaises ==
    /\ pc = "bfs_loop" /\ queue # <<>>
    /\ ~TooDeep(Head(queue).depth, max_depth)
    /\ ~Stored(store, Head(queue).uri)
    /\ EndRun(IF PostOfUri(Head(queue).uri) \in live THEN "transient" ELSE "notfound")

\* FetchPage with the post marked as soon as its first page is there
FetchPageMarksEarly ==
    /\ pc = "page"
    /\ LET data == fetch_quotes(cur.uri, cursor, live, bad) IN
       /\ pending' = data.posts
       /\ cursor' = data.cursor
       /\ pc' = IF data.posts = <<>> THEN "mark" ELSE "child"
       /\ run' = Track([run EXCEPT
                    !.seen = @ \cup {data.posts[i].uri : i \in 1..Len(data.posts)},
                    !.returned = @ \cup {data.posts[i].uri : i \in 1..Len(data.posts)}])
    /\ store' = SetCrawled(store, cur.uri)
    /\ UNCHANGED <<envVars, cmd, arg, max_depth, traceVars, queue, cur,
                   total_crawled, updVars, hist, prev>>
    /\ saved' = NoSaved

\* fetch_quotes(uri, cursor) succeeding: one page
FetchPage ==
    /\ pc = "page"
    /\ LET data == fetch_quotes(cur.uri, cursor, live, bad) IN
       /\ pending' = data.posts
       /\ cursor' = data.cursor
       /\ pc' = IF data.posts = <<>> THEN "mark" ELSE "child"
       /\ run' = Track([run EXCEPT
                    !.seen = @ \cup {data.posts[i].uri : i \in 1..Len(data.posts)},
                    !.returned = @ \cup {data.posts[i].uri : i \in 1..Len(data.posts)}])
    /\ UNCHANGED <<envVars, store, cmd, arg, max_depth, traceVars, queue, cur, total_crawled,
                   updVars, hist, prev>>
    /\ saved' = NoSaved

\* fetch_quotes raises: the whole crawl dies
FetchPageRaises ==
    /\ pc = "page"
    /\ EndRun("transient")

\* the body of "for post in posts" for one post of the page
IngestChild ==
    /\ pc = "child"
    /\ LET post == Head(pending) IN
       /\ store' = save_post(store, post, FALSE)
       /\ saved' = SavedRec(store, post, FALSE)
       /\ total_crawled' = total_crawled + 1
       /\ queue' = IF post.quoteCount > 0
                   THEN Append(queue, [uri |-> post.uri, depth |-> cur.depth + 1])
                   ELSE queue
       /\ run' = Track([run EXCEPT !.ingested = @ \cup {post.uri},
                             !.created = @ + Created(store, post)])
    /\ pending' = Tail(pending)
    /\ pc' = IF pending' # <<>> THEN "child"
             ELSE IF cursor = NoCursor THEN "mark" ELSE "page"
    /\ UNCHANGED <<envVars, cmd, arg, max_depth, traceVars, cur, cursor, updVars, hist, prev>>

\* UPDATE posts SET quotes_crawled = TRUE WHERE uri = ?
MarkCrawled ==
    /\ pc = "mark"
    /\ store' = SetCrawled(store, cur.uri)
    /\ run' = Track([run EXCEPT !.marked = @ \cup {cur.uri}])
    /\ pc' = "bfs_loop"
    /\ UNCHANGED <<envVars, cmd, arg, max_depth, traceVars, bfsVars, updVars, hist, prev>>
    /\ saved' = NoSaved

\* the queue is empty: return total_crawled
BfsReturn ==
    /\ pc = "bfs_loop" /\ queue = <<>>
    /\ pc' = IF cmd = "crawl" THEN "done" ELSE "select"
    /\ UNCHANGED <<envVars, store, cmd, arg, max_depth, traceVars, bfsVars, updVars, run,
                   hist, prev>>
    /\ saved' = NoSaved

(* ------------------------- crawl-all and update ------------------------ *)
\* the selection without "AND quotes_crawled = FALSE"
UncrawledOrNot(st) == {u \in DOMAIN st : st[u].quote_count > 0}

\* WHERE quote_count > 0 AND quotes_crawled = FALSE
Uncrawled(st) == {u \in DOMAIN st : st[u].quote_count > 0 /\ ~st[u].quotes_crawled}

\* ORDER BY quote_count DESC LIMIT 1
TopUncrawled(st) ==
    {u \in Uncrawled(st) : \A v \in Uncrawled(st) : st[v].quote_count <= st[u].quote_count}

StartCrawlAll ==
    /\ cmd = "idle"
    /\ cmd' = "crawl-all" /\ pc' = "select"
    /\ run' = NoRun
    /\ store' = init_db(store)
    /\ UNCHANGED <<envVars, arg, max_depth, traceVars, bfsVars, updVars, hist>>
    /\ saved' = NoSaved
    /\ prev' = KeepPrev

\* one turn of the "while True" of crawl-all, and of the one in update
Select ==
    /\ pc = "select"
    /\ IF Uncrawled(store) = {}
       THEN /\ pc' = "done"
            /\ UNCHANGED <<uri, bfsVars, run>>
       ELSE /\ \E u \in TopUncrawled(store) : uri' = u /\ CallBfs(u)
            /\ run' = Track([run EXCEPT !.created = 0, !.returned = {}, !.marked = {}])
    /\ UNCHANGED <<envVars, store, cmd, arg, max_depth, chain, updVars, hist, prev>>
    /\ saved' = NoSaved

\* the rows WHERE quote_count > 0 in an order ORDER BY quote_count DESC allows
ScanOrders(st) ==
    LET S == {u \in DOMAIN st : st[u].quote_count > 0} IN
    {s \in [1..Cardinality(S) -> S] :
        /\ \A i, j \in 1..Cardinality(S) : i # j => s[i] # s[j]
        /\ \A i, j \in 1..Cardinality(S) :
              i < j => st[s[i]].quote_count >= st[s[j]].quote_count}

StartUpdate ==
    /\ cmd = "idle"
    /\ cmd' = "update" /\ pc' = "scan"
    /\ store' = init_db(store)
    /\ scan' \in ScanOrders(store')
    /\ updated' = 0
    /\ run' = NoRun
    /\ UNCHANGED <<envVars, arg, max_depth, traceVars, bfsVars, hist>>
    /\ saved' = NoSaved
    /\ prev' = KeepPrev

\* ScanStep without the test new_count > old_count: every fetched post is saved with
\* force_update
ScanStepForcesAlways ==
    /\ pc = "scan" /\ scan # <<>>
    /\ LET u == Head(scan)
           post == fetch_post(u, live, bad)
       IN  IF post # NoPost
           THEN /\ store' = save_post(store, post, TRUE)
                /\ saved' = SavedRec(store, post, TRUE)
                /\ updated' = updated + 1
                /\ run' = Track([run EXCEPT !.fetched = @ \cup {u}, !.ingested = @ \cup {u}])
           ELSE /\ run' = Track([run EXCEPT !.fetched = @ \cup {u}])
                /\ UNCHANGED <<store, updated>> /\ saved' = NoSaved
    /\ scan' = Tail(scan)
    /\ UNCHANGED <<envVars, cmd, pc, arg, max_depth, traceVars, bfsVars, hist, prev>>

\* one turn of "for (uri,) in posts_with_quotes", the fetch succeeding
ScanStep ==
    /\ pc = "scan" /\ scan # <<>>
    /\ LET u == Head(scan)
           post == fetch_post(u, live, bad)
           old_count == store[u].quote_count
       IN  IF post # NoPost /\ post.quoteCount > old_count
           THEN /\ store' = save_post(store, post, TRUE)
                /\ saved' = SavedRec(store, post, TRUE)
                /\ updated' = updated + 1
                /\ run' = Track([run EXCEPT !.fetched = @ \cup {u}, !.ingested = @ \cup {u}])
           ELSE /\ run' = Track([run EXCEPT !.fetched = @ \cup {u}])
                /\ UNCHANGED <<store, updated>> /\ saved' = NoSaved
    /\ scan' = Tail(scan)
    /\ UNCHANGED <<envVars, cmd, pc, arg, max_depth, traceVars, bfsVars, hist, prev>>

\* fetch_post raises inside the try: the error is printed, the scan goes on
ScanFetchRaises ==
    /\ pc = "scan" /\ scan # <<>>
    /\ scan' = Tail(scan)
    /\ UNCHANGED <<envVars, store, cmd, pc, arg, max_depth, traceVars, bfsVars, updated, run,
                   hist, prev>>
    /\ saved' = NoSaved

\* after the scan: crawl only "if updated > 0"
ScanEnd ==
    /\ pc = "scan" /\ scan = <<>>
    /\ pc' = IF updated > 0 THEN "select" ELSE "done"
    /\ UNCHANGED <<envVars, store, cmd, arg, max_depth, traceVars, bfsVars, updVars, run,
                   hist, prev>>
    /\ saved' = NoSaved

Next ==
    \/ RemoteChange
    \/ Interrupt
    \/ Exit
    \/ StartTrace
    \/ TraceStep
    \/ TraceFetchRaises
    \/ StartCrawl
    \/ Dequeue
    \/ DequeueFetchRaises
    \/ FetchPage
    \/ FetchPageRaises
    \/ IngestChild
    \/ MarkCrawled
    \/ BfsReturn
    \/ StartCrawlAll
    \/ Select
    \/ StartUpdate
    \/ ScanStep
    \/ ScanFetchRaises
    \/ ScanEnd

Spec == Init /\ [][Next]_vars

\* the remote data never changes
NextStatic ==
    \/ Interrupt
    \/ Exit
    \/ StartTrace
    \/ TraceStep
    \/ TraceFetchRaises
    \/ StartCrawl
    \/ Dequeue
    \/ DequeueFetchRaises
    \/ FetchPage
    \/ FetchPageRaises
    \/ IngestChild
    \/ MarkCrawled
    \/ BfsReturn
    \/ StartCrawlAll
    \/ Select
    \/ StartUpdate
    \/ ScanStep
    \/ ScanFetchRaises
    \/ ScanEnd

SpecTwice == InitTwice /\ [][NextStatic]_vars

\* the trace command alone, against the remote with the cycle
NextTrace ==
    \/ Interrupt
    \/ Exit
    \/ StartTrace
    \/ TraceStep
    \/ TraceFetchRaises

SpecCycle == InitCycle /\ [][NextTrace]_vars

\* the remote changes between two commands only
RemoteChangeIdle == cmd = "idle" /\ RemoteChange

\* a trace or a crawl is killed
InterruptCrawl == cmd \in {"trace", "crawl"} /\ Interrupt

\* the steps of a running command when no request fails
Steps ==
    \/ Exit
    \/ TraceStep
    \/ Dequeue
    \/ FetchPage
    \/ IngestChild
    \/ MarkCrawled
    \/ BfsReturn
    \/ Select
    \/ ScanStep
    \/ ScanEnd

NextCatchUp ==
    \/ RemoteChangeIdle
    \/ InterruptCrawl
    \/ StartTrace
    \/ StartCrawl
    \/ StartCrawlAll
    \/ StartUpdate
    \/ Steps

\* crawl-all and update run undisturbed: no request fails, nothing kills them, the
\* remote stays as it is while they run, and a running command takes its next step
SpecCatchUp == Init /\ [][NextCatchUp]_vars /\ WF_vars(Steps)

\* the expander alone, with and without a depth bound
NextDepth ==
    \/ RemoteChange
    \/ Interrupt
    \/ Exit
    \/ StartCrawl
    \/ StartCrawlDepth
    \/ Dequeue
    \/ DequeueFetchRaises
    \/ FetchPage
    \/ FetchPageRaises
    \/ IngestChild
    \/ MarkCrawled
    \/ BfsReturn

SpecDepth == Init /\ [][NextDepth]_vars

(* ------------------------- save_post on any record --------------------- *)
\* the post views save_post may be called with: any counters and either of two
\* records (embed and text), whatever the table holds for the uri
LikeCounts == {0, 1}
Bodies == {<<None, "R">>, <<Did("G"), "A">>}
Records ==
    {[uri |-> u, quoteCount |-> q, likeCount |-> l, quotes_uri |-> b[1], text |-> b[2],
      malformed |-> m] :
        u \in {Did("R"), Did("A")}, q \in 0..MaxCount, l \in LikeCounts, b \in Bodies,
        m \in BOOLEAN}

InitSave == InitState /\ hist = FALSE /\ cyc = FALSE /\ live = {} /\ bad = {}

\* a call save_post(con, post, force_update)
SavePostCall ==
    /\ \E post \in Records, force_update \in BOOLEAN :
          /\ store' = save_post(store, post, force_update)
          /\ saved' = SavedRec(store, post, force_update)
    /\ UNCHANGED <<envVars, cmd, pc, arg, max_depth, traceVars, bfsVars, updVars, run,
                   hist, prev>>

\* the UPDATE that ends an expansion, for any row
SetCrawledCall ==
    /\ \E u \in DOMAIN store : store' = SetCrawled(store, u)
    /\ saved' = NoSaved
    /\ UNCHANGED <<envVars, cmd, pc, arg, max_depth, traceVars, bfsVars, updVars, run,
                   hist, prev>>

NextSave ==
    \/ SavePostCall
    \/ SetCrawledCall

SpecSave == InitSave /\ [][NextSave]_vars

(* ------------------------------ consistency ---------------------------- *)
\* the step-by-step crawl and crawl_quotes_bfs as a function end with the same table
BfsAgrees ==
    (cmd = "crawl" /\ pc = "done" /\ hist) => FlagsOf(store) = run.goal

TypeOK ==
    /\ live \subseteq Posts /\ bad \subseteq Malformable
    /\ DOMAIN store \subseteq {Did(p) : p \in Posts}
    /\ \A u \in DOMAIN store : store[u].quote_count \in 0..Len(QuotersOf(PostOfUri(u)))
    /\ pc \in {"idle", "done", "trace_loop", "bfs_loop", "page", "child", "mark",
               "select", "scan"}

(* -------------------------------- claims ------------------------------- *)
\* a save_post call just happened for a post that already had a row
IngestedExisting == saved' # NoSaved /\ saved'.uri \in DOMAIN store

\* C1: save_post of a post that has a row, with a quote_count strictly greater than the
\* stored one, leaves quotes_crawled false whatever it was; with a quote_count equal to
\* the stored one it leaves quotes_crawled as it was.
C1_RecrawlTrigger ==
    [][IngestedExisting =>
         /\ saved'.qc > store[saved'.uri].quote_count
               => ~store'[saved'.uri].quotes_crawled
         /\ saved'.qc = store[saved'.uri].quote_count
               => store'[saved'.uri].quotes_crawled = store[saved'.uri].quotes_crawled]_vars

\* a crawled post was ingested with a greater quote_count and is open again
C1_Witness ==
    /\ saved # NoSaved /\ saved.had /\ saved.old_crawled
    /\ saved.qc > saved.old_qc
    /\ ~store[saved.uri].quotes_crawled

\* C2: a second crawl of the same root, right after one that ran to its end and with the
\* remote data unchanged, returns 0 and adds no row.
C2_Idempotent ==
    (/\ cmd = "crawl" /\ pc = "done"
     /\ prev.cmd = "crawl" /\ prev.outcome = "done"
     /\ prev.arg = arg /\ prev.max_depth = max_depth)
    => (total_crawled = 0 /\ run.created = 0)

\* the posts a finished crawl had listed in quotes pages, with what the remote says of them
ListedCount(u) == QuoteCount(PostOfUri(u), live)

\* C3 as stated: after a crawl of R that ran to its end against unchanged remote data,
\* R and every post listed in a quotes page are stored with quotes_crawled true, the
\* listed posts with quote_count 0 included. (Stated for a root passed as stable uri
\* and for records the table accepts.)
C3_AllExpanded ==
    (cmd = "crawl" /\ pc = "done" /\ arg[1] = "did" /\ bad = {})
    => \A u \in (IF PostOfUri(arg) \in live THEN {arg} ELSE {}) \cup run.returned :
          Stored(store, u) /\ store[u].quotes_crawled

\* C3 amended: after such a crawl every listed post has a row unless its INSERT failed;
\* the root, passed as stable uri, has a row when the remote has it and its record is
\* accepted, and its flag is true; a listed post with a row and quote_count > 0 has
\* the flag true; a listed post with quote_count 0 is not marked by the run.
C3_ExpandedWhereQuoted ==
    (cmd = "crawl" /\ pc = "done")
    => /\ arg[1] = "did" =>
            /\ (PostOfUri(arg) \in live \ bad) => Stored(store, arg)
            /\ Stored(store, arg) => store[arg].quotes_crawled
       /\ \A u \in run.returned :
            /\ PostOfUri(u) \notin bad => Stored(store, u)
            /\ (Stored(store, u) /\ ListedCount(u) > 0) => store[u].quotes_crawled
            /\ ListedCount(u) = 0 => u \notin run.marked

\* R with two quoting posts A and B that nobody quotes: R expanded, A and B stored and
\* not expanded, 2 posts counted
C3_Witness ==
    /\ cmd = "crawl" /\ pc = "done" /\ arg = Did("R")
    /\ run.returned = {Did("A"), Did("B")}
    /\ DOMAIN store = {Did("R"), Did("A"), Did("B")}
    /\ store[Did("R")].quotes_crawled
    /\ store[Did("A")].quote_count = 0 /\ ~store[Did("A")].quotes_crawled
    /\ store[Did("B")].quote_count = 0 /\ ~store[Did("B")].quotes_crawled
    /\ total_crawled = 2

\* C4: what crawl_quotes_bfs returns is the number of rows created during the call
\* (stated for the calls that find every dequeued post in the table, so that rows come
\* from quotes pages only).
C4_CountsNewRows ==
    (cmd = "crawl" /\ pc = "done" /\ run.fetched = {})
    => total_crawled = run.created

C6_ListedAreStored ==
    [][(pc = "mark" /\ pc' = "bfs_loop" /\ Stored(store', cur.uri))
         => run.seen \subseteq DOMAIN store']_vars

\* C7: quotes_crawled turns true only in the step after the page loop of that very
\* post, and after every step taken inside the page loop, its interruption and the
\* failure of a request included, the row of the post being expanded has the flag false.
C7_MarkedAfterLoop ==
    [][/\ \A u \in DOMAIN store' :
            (store'[u].quotes_crawled
               /\ ~(u \in DOMAIN store /\ store[u].quotes_crawled))
            => (pc = "mark" /\ pc' = "bfs_loop" /\ cur.uri = u)
       /\ (pc \in {"page", "child"} /\ Stored(store', cur.uri))
            => ~store'[cur.uri].quotes_crawled]_vars

\* a post was marked after a page loop that listed posts
C7_Witness ==
    /\ pc = "bfs_loop" /\ Stored(store, cur.uri)
    /\ store[cur.uri].quotes_crawled
    /\ run.seen # {}

\* C8: a crawl of R that was killed, followed by a crawl of R that runs to its end, the
\* remote data unchanged, ends with the rows and flags one undisturbed crawl of R
\* from the first start would have ended with.
C8_Resumable ==
    (/\ cmd = "crawl" /\ pc = "done"
     /\ prev.cmd = "crawl" /\ prev.outcome = "killed"
     /\ prev.arg = arg /\ prev.max_depth = max_depth)
    => FlagsOf(store) = prev.goal

\* C9: when the post the tracer asks for is gone, the tracer ends normally with the
\* chain it has and leaves the table as it is (steps of the tracer itself: not a kill,
\* not a change of the remote).
C9_NotFoundEndsTrace ==
    [][(/\ pc = "trace_loop" /\ ~Stored(store, uri)
        /\ PostOfUri(uri) \notin live
        /\ live' = live /\ prev'.outcome # "killed")
         => (pc' = "done" /\ chain' = chain /\ store' = store)]_vars

\* C10: a second trace from the same start, right after one that ran to its end and
\* with the remote data unchanged, returns the same chain and fetches no post the
\* first one ingested.
C10_TraceCached ==
    (/\ cmd = "trace" /\ pc = "done"
     /\ prev.cmd = "trace" /\ prev.outcome = "done" /\ prev.arg = arg)
    => (chain = prev.chain /\ run.fetched \cap prev.ingested = {})

\* the scan of update fetched every row it had to: no request failed
ScannedAll == {u \in DOMAIN store : store[u].quote_count > 0} \subseteq run.fetched

\* C11: when update ran to its end, no request having failed, no row is left with
\* quotes_crawled false and quote_count > 0, whatever the table held at its start
\* (stated for the runs whose scan met no grown quote count, and for every other run
\* that ended).
C11_UpdateLeavesNoneOpen ==
    (cmd = "update" /\ pc = "done" /\ (updated = 0 => ScannedAll))
    => Uncrawled(store) = {}

\* the row getQuotes is asked about: fetch_quotes resolves the identifier first
RowOf(u) == resolve_uri_to_did(u)

\* C12: no quotes page is requested for a dequeued post whose row has quotes_crawled
\* true (a step from "page" that delivers a page is a fetch_quotes call for cur.uri).
C12_NoPageForExpanded ==
    [][(pc = "page" /\ pc' \in {"child", "mark"})
         => ~(Stored(store, RowOf(cur.uri)) /\ store[RowOf(cur.uri)].quotes_crawled)]_vars

\* C13: the tracer comes to an end for every start and every content of table and
\* remote: it never follows a post it has followed before in the same run (the loop
\* takes its next identifier from the table or the remote alone, so a second visit is
\* the start of an endless round; the claim has it stop there with an integrity error).
C13_TraceEnds ==
    cmd = "trace" =>
        \A i, j \in 1..Len(chain) : i # j => RowOf(chain[i]) # RowOf(chain[j])

\* the rows that still need their quotes fetched, written out
OpenRows == {u \in DOMAIN store : store[u].quote_count > 0 /\ ~store[u].quotes_crawled}

\* C14: the loop of crawl-all (and the one of update), run against a remote that stays
\* as it is and with no failing request, comes to its end with no row left open, and
\* whenever it comes back to the selection the row it selected last has quotes_crawled
\* true.
C14_CatchUpEnds ==
    /\ []((cmd \in {"crawl-all", "update"} /\ pc = "select" /\ uri # None)
            => (Stored(store, uri) /\ store[uri].quotes_crawled))
    /\ (cmd \in {"crawl-all", "update"} /\ pc = "select")
          ~> (cmd \in {"crawl-all", "update"} /\ pc = "done" /\ OpenRows = {})

\* crawl-all ended after expanding an open row, and two rows with quotes are flagged
C14_Witness ==
    /\ cmd = "crawl-all" /\ pc = "done" /\ uri # None
    /\ OpenRows = {}
    /\ Cardinality({u \in DOMAIN store :
                      store[u].quote_count > 0 /\ store[u].quotes_crawled}) >= 2

C16_ForceKeepsFlag ==
    [][(IngestedExisting /\ saved'.force /\ saved'.qc <= store[saved'.uri].quote_count)
         => store'[saved'.uri].quotes_crawled = store[saved'.uri].quotes_crawled]_vars

\* an expanded row went through a forced save_post without growth and is still expanded
C16_Witness ==
    /\ saved # NoSaved /\ saved.had /\ saved.force
    /\ saved.qc <= saved.old_qc
    /\ saved.old_crawled
    /\ store[saved.uri].quotes_crawled

\* C17: no step changes the parent edge or the record fields (cid, author, text, media)
\* of a row, whatever record is ingested for its uri later: only the counters and
\* quotes_crawled change.
C17_RecordFieldsKept ==
    [][\A u \in DOMAIN store :
          /\ u \in DOMAIN store'
          /\ store'[u].quotes_uri = store[u].quotes_uri
          /\ store'[u].text = store[u].text]_vars

\* a record with another embed and another text was ingested for a row, the UPDATE ran,
\* and the row has the edge and the text it had
C17_Witness ==
    /\ saved # NoSaved /\ saved.had
    /\ saved.qc > saved.old_qc
    /\ store[saved.uri].quote_count = saved.qc
    /\ saved.edge # store[saved.uri].quotes_uri
    /\ saved.text # store[saved.uri].text

\* C18: whatever commands run, end or are killed, no step removes a row, a save_post
\* call for a uri that has a row adds none, and no post has two rows (the table is
\* keyed by the uri the remote returns, also for a post asked for by its handle).
C18_RowsOnlyGrow ==
    [][/\ DOMAIN store \subseteq DOMAIN store'
       /\ IngestedExisting => DOMAIN store' = DOMAIN store
       /\ \A u, v \in DOMAIN store' : PostOfUri(u) = PostOfUri(v) => u = v]_vars

\* a command started with a handle fetched its post again and ingested it: the post
\* had a row, left by an earlier command, next to another row
C18_Witness ==
    /\ arg[1] = "handle" /\ saved.uri = RowOf(arg)
    /\ saved # NoSaved /\ saved.had
    /\ Cardinality(DOMAIN store) >= 2

\* the step is the body of "for post in posts" for the first post of pending
IngestsHead == pc = "child" /\ cmd' = cmd /\ pending' = Tail(pending)

\* C19: with a depth bound d, no quotes page is asked for and no flag is set for a
\* queue item deeper than d, and every post of a page is handed to save_post and has
\* its row (unless the table refuses its record), also when it lies deeper than d.
C19_DepthLimitsExpansion ==
    [][/\ (max_depth' # NoDepth /\ pc' \in {"page", "child", "mark"})
            => cur'.depth <= max_depth'
       /\ \A u \in DOMAIN store' :
            (store'[u].quotes_crawled
               /\ ~(u \in DOMAIN store /\ store[u].quotes_crawled))
            => (cur.uri = u /\ ~TooDeep(cur.depth, max_depth))
       /\ IngestsHead
            => /\ saved'.uri = Head(pending).uri
               /\ ~Head(pending).malformed => Stored(store', Head(pending).uri)]_vars

\* under a depth bound a post listed by an item at the bound got its row, was queued
\* one level deeper, was taken from the queue and skipped: it has quotes and no flag
C19_Witness ==
    /\ cmd = "crawl" /\ max_depth # NoDepth
    /\ pc = "bfs_loop" /\ cur.depth = max_depth + 1
    /\ Stored(store, cur.uri)
    /\ store[cur.uri].quote_count > 0 /\ ~store[cur.uri].quotes_crawled

\* C20: a request that fails for a passing reason (timeout, rate limit, 5xx) while a
\* queue item is expanded does not end the expansion: the command stays alive, the
\* item is tried or queued again and the queue is worked off. Stated for a failing
\* quotes page with other items waiting in the queue.
C20_TransientKeepsQueue ==
    [][(cmd \in {"crawl", "crawl-all", "update"} /\ pc = "page" /\ queue # <<>>)
         => ~(cmd' = "idle" /\ prev'.outcome = "transient")]_vars

\* C21: when the expansion of a dequeued identifier ends without error (the step from
\* "mark" back to the loop) and its post has a row, that row has quotes_crawled true,
\* also when the identifier is a handle-form uri and the row is keyed by the did uri.
C21_ExpandedIsFlagged ==
    [][(pc = "mark" /\ pc' = "bfs_loop" /\ Stored(store', RowOf(cur.uri)))
         => store'[RowOf(cur.uri)].quotes_crawled]_vars

\* C22: no step of trace, crawl, crawl-all or update lowers the quote_count of a row,
\* and save_post is called with force_update only for a fetch whose quote_count is
\* greater than the stored one.
C22_CountNeverDecreases ==
    [][/\ \A u \in DOMAIN store :
            u \in DOMAIN store' /\ store'[u].quote_count >= store[u].quote_count
       /\ (saved' # NoSaved /\ saved'.force)
            => (saved'.uri \in DOMAIN store
                  /\ saved'.qc > store[saved'.uri].quote_count)]_vars

\* crawl-all listed a post of which the remote now shows fewer quotes than its row
\* says, handed it to save_post without force, and the row has its count still
C22_Witness ==
    /\ cmd = "crawl-all" /\ pc \in {"child", "page", "mark"}
    /\ saved # NoSaved /\ saved.had /\ ~saved.force
    /\ saved.qc < saved.old_qc
    /\ saved.qc = QuoteCount(PostOfUri(saved.uri), live)
    /\ store[saved.uri].quote_count = saved.old_qc

====
